---- MODULE Spec2Model ----
(***************************************************************************)
(* Model of src/index.js: the "Gaps N' Laps" page script.                  *)
(*                                                                         *)
(* The script watches the page for the element #timeReportTable           *)
(* (MutationObserver), and when it appears reads the table's rows, parses  *)
(* the "(HH:MM - HH:MM)" stopwatch intervals of every content row, groups  *)
(* them under the preceding row that has an id, computes per-group         *)
(* metrics, and renders one summary line and one SVG timeline per group.   *)
(*                                                                         *)
(* Times are JavaScript Date values, modelled as milliseconds counted from *)
(* local midnight of the day the script runs ("today"); the local day is   *)
(* taken to have 24 hours (no daylight-saving change on the day of the     *)
(* run).  The activity label and the colour of an interval, and the day    *)
(* string of a group, are display attributes that no metric reads; they    *)
(* are left out of the records.                                            *)
(***************************************************************************)
EXTENDS Integers, Sequences, FiniteSets

VARIABLES
    intervalsString,   \* argument of a getIntervalsFromString call
    parsed,            \* its return value, <<>> before the call returns
    parseDone,         \* TRUE once getIntervalsFromString has returned
    inDocument,        \* table element attached as #timeReportTable, 0 if none
    seenAttr,          \* table elements carrying data-_seen="true"
    records,           \* MutationRecords queued for the observer callback
    rows,              \* the <tr> rows of the tbody of the attached table
    loadedCount,       \* onTableLoaded calls since the table last appeared
    rendered,          \* TRUE once renderGroupInfo has run
    groupedRows,       \* return value of the last groupTableRows call
    maxGroupTotalTime, \* scale computed by the last renderGroupInfo call
    groupInfo          \* per group: the three flags and the timeline rects

vars == <<intervalsString, parsed, parseDone, inDocument, seenAttr, records,
          rows, loadedCount, rendered, groupedRows, maxGroupTotalTime,
          groupInfo>>

parseVars == <<intervalsString, parsed, parseDone>>
pageVars == <<inDocument, seenAttr, records, rows, loadedCount, rendered,
              groupedRows, maxGroupTotalTime, groupInfo>>

----------------------------------------------------------------------------
(* Bounds of the model.                                                    *)

\* longest text, in fragments, handed to the parser on its own
MaxFragments == 2
\* most <tr> rows in a table body
MaxRows == 4
\* table elements the page may create
NumTables == 2
\* most mutation records the page queues before the callback runs
MaxRecords == 3

----------------------------------------------------------------------------
(* JavaScript values.                                                      *)

\* return null
null == -1

MsPerMinute == 60 * 1000
MsPerHour == 60 * MsPerMinute
MsPerDay == 24 * MsPerHour

\* new Date(year, month, day, hours, minutes) for the day `day` days after
\* today; out-of-range hours and minutes carry over as the constructor does
Date(day, hours, minutes) == ((day * 24 + hours) * 60 + minutes) * MsPerMinute

\* d.setDate(d.getDate() + 1)
setDateNextDay(d) == d + MsPerDay

\* a finite JavaScript number
Number(n) == [kind |-> "number", num |-> n, den |-> 1]
NegInfinity == [kind |-> "-Infinity", num |-> 0, den |-> 1]
PosInfinity == [kind |-> "Infinity", num |-> 0, den |-> 1]
NaN == [kind |-> "NaN", num |-> 0, den |-> 1]
\* a variable that has not been assigned yet
undefined == [kind |-> "undefined", num |-> 0, den |-> 1]

\* a / b * 100 in IEEE arithmetic, kept exact as the fraction a / b:
\* 0 / 0 is NaN, a / 0 is +-Infinity, a / -Infinity is 0
Percent(a, b) ==
    IF b.kind = "-Infinity" THEN Number(0)
    ELSE IF b.num = 0
         THEN IF a = 0 THEN NaN
              ELSE IF a > 0 THEN PosInfinity ELSE NegInfinity
         ELSE [kind |-> "number", num |-> a, den |-> b.num]

----------------------------------------------------------------------------
(* getIntervalsFromString                                                  *)

\* A text is a sequence of fragments.  A fragment that the regular
\* expression \((\d{2}):(\d{2})\s*-\s*(\d{2}):(\d{2})\) matches is the
\* record of its four captured numbers; any other fragment is Junk.
Junk == [startHour |-> -1, startMinute |-> -1, stopHour |-> -1, stopMinute |-> -1]

Match(sh, sm, eh, em) ==
    [startHour |-> sh, startMinute |-> sm, stopHour |-> eh, stopMinute |-> em]

\* regex.exec loop: the matches of the text, in order of appearance
regexMatches(text) == SelectSeq(text, LAMBDA f : f # Junk)

\* mutant of rollOver: the midnight test written with <= instead of <
rollOverOnEqual(startTime, stopTime) ==
    IF stopTime <= startTime THEN setDateNextDay(stopTime) ELSE stopTime

\* the stop time after the midnight test of lines 40-42
rollOver(startTime, stopTime) ==
    IF stopTime < startTime THEN setDateNextDay(stopTime) ELSE stopTime

getIntervalsFromString(text) ==
    LET matches == regexMatches(text)
    IN  [i \in 1..Len(matches) |->
            LET startTime == Date(0, matches[i].startHour, matches[i].startMinute)
                stopTime == Date(0, matches[i].stopHour, matches[i].stopMinute)
            IN  [startTime |-> startTime,
                 stopTime |-> rollOver(startTime, stopTime)]]

----------------------------------------------------------------------------
(* Group metrics                                                           *)

getGroupStartTime(group) ==
    IF Len(group.intervals) > 0
    THEN group.intervals[1].startTime
    ELSE null

getGroupStopTime(group) ==
    IF Len(group.intervals) > 0
    THEN group.intervals[Len(group.intervals)].stopTime
    ELSE null

\* group.intervals.reduce((total, interval) => ..., 0), from index i on
RECURSIVE reduceTotalTime(_, _, _)
reduceTotalTime(intervals, i, total) ==
    IF i > Len(intervals) THEN total
    ELSE reduceTotalTime(intervals, i + 1,
            total + (intervals[i].stopTime - intervals[i].startTime))

getGroupTotalTime(group) == reduceTotalTime(group.intervals, 1, 0)

\* mutant of gapStep: the gap measured from the start of the previous
\* interval instead of its stop
gapStepFromStart(prev, curr, totalGapTimeMs) ==
    LET gap == curr.startTime - prev.startTime
    IN  IF gap > 0 THEN totalGapTimeMs + gap ELSE totalGapTimeMs

\* mutant of gapStep: the test gap > 0 left out
gapStepUnguarded(prev, curr, totalGapTimeMs) ==
    totalGapTimeMs + (curr.startTime - prev.stopTime)

\* one pass of the loop body of lines 105-109
gapStep(prev, curr, totalGapTimeMs) ==
    LET gap == curr.startTime - prev.stopTime
    IN  IF gap > 0 THEN totalGapTimeMs + gap ELSE totalGapTimeMs

\* for (let i = 1; i < length; i++); i counts from 2 in 1-based sequences
RECURSIVE gapLoop(_, _, _)
gapLoop(intervals, i, totalGapTimeMs) ==
    IF i > Len(intervals) THEN totalGapTimeMs
    ELSE gapLoop(intervals, i + 1,
            gapStep(intervals[i - 1], intervals[i], totalGapTimeMs))

getGroupTotalGapTime(group) == gapLoop(group.intervals, 2, 0)

\* one pass of the loop body of lines 124-128
overlapStep(prev, curr, totalOverlapTimeMs) ==
    LET overlap == prev.stopTime - curr.startTime
    IN  IF overlap > 0 THEN totalOverlapTimeMs + overlap ELSE totalOverlapTimeMs

RECURSIVE overlapLoop(_, _, _)
overlapLoop(intervals, i, totalOverlapTimeMs) ==
    IF i > Len(intervals) THEN totalOverlapTimeMs
    ELSE overlapLoop(intervals, i + 1,
            overlapStep(intervals[i - 1], intervals[i], totalOverlapTimeMs))

getGroupTotalOverlapTime(group) == overlapLoop(group.intervals, 2, 0)

\* Math.max(...values): -Infinity for no argument
RECURSIVE mathMax(_, _, _)
mathMax(values, i, best) ==
    IF i > Len(values) THEN best
    ELSE mathMax(values, i + 1,
            IF best.kind = "-Infinity" \/ values[i] > best.num
            THEN Number(values[i]) ELSE best)

\* mutant of getMaxGroupTotalTime: Math.max(0, ...values)
getMaxGroupTotalTimeFromZero(groups) ==
    mathMax([k \in 1..Len(groups) |->
                groups[k].totalTime + groups[k].totalGapTimeMs],
            1, Number(0))

\* mutant of getMaxGroupTotalTime: the overlap time taken off the scale
getMaxGroupTotalTimeLessOverlap(groups) ==
    mathMax([k \in 1..Len(groups) |->
                groups[k].totalTime + groups[k].totalGapTimeMs
                    - groups[k].totalOverlapTimeMs],
            1, NegInfinity)

\* mutant of getMaxGroupTotalTime: the gap time left out of the scale
getMaxGroupTotalTimeNoGap(groups) ==
    mathMax([k \in 1..Len(groups) |-> groups[k].totalTime], 1, NegInfinity)

getMaxGroupTotalTime(groups) ==
    mathMax([k \in 1..Len(groups) |->
                groups[k].totalTime + groups[k].totalGapTimeMs],
            1, NegInfinity)

----------------------------------------------------------------------------
(* groupTableRows                                                          *)

\* A <tr> row: its id ("" when it has none), whether it holds a
\* ".timeReportStopwatchIntervals strong" element, and that element's text.
BoundaryRow(id) == [id |-> id, strong |-> FALSE, text |-> <<>>]
ContentRow(strong, text) == [id |-> "", strong |-> strong, text |-> text]

\* mutant of scanRows: currentGroup is set at the first boundary row only
RECURSIVE scanRowsKeepFirst(_, _, _, _)
scanRowsKeepFirst(trs, i, groups, currentGroup) ==
    IF i > Len(trs) THEN groups
    ELSE IF trs[i].id # ""
         THEN scanRowsKeepFirst(trs, i + 1,
                  Append(groups, [headerRowElementId |-> trs[i].id,
                                  intervals |-> <<>>]),
                  IF currentGroup = 0 THEN Len(groups) + 1 ELSE currentGroup)
         ELSE IF currentGroup # 0 /\ trs[i].strong
              THEN scanRowsKeepFirst(trs, i + 1,
                       [groups EXCEPT ![currentGroup].intervals =
                            @ \o getIntervalsFromString(trs[i].text)],
                       currentGroup)
              ELSE scanRowsKeepFirst(trs, i + 1, groups, currentGroup)

\* rows.forEach of lines 204-228; currentGroup is the index in groups of the
\* group the variable refers to, 0 for null
RECURSIVE scanRows(_, _, _, _)
scanRows(trs, i, groups, currentGroup) ==
    IF i > Len(trs) THEN groups
    ELSE IF trs[i].id # ""
         THEN scanRows(trs, i + 1,
                  Append(groups, [headerRowElementId |-> trs[i].id,
                                  intervals |-> <<>>]),
                  Len(groups) + 1)
         ELSE IF currentGroup # 0 /\ trs[i].strong
              THEN scanRows(trs, i + 1,
                       [groups EXCEPT ![currentGroup].intervals =
                            @ \o getIntervalsFromString(trs[i].text)],
                       currentGroup)
              ELSE scanRows(trs, i + 1, groups, currentGroup)

\* (a, b) => a.startTime - b.startTime
compareFn(a, b) == a.startTime - b.startTime

\* Array.prototype.sort is stable: an element goes behind every element
\* that does not compare greater than it
RECURSIVE insertSorted(_, _)
insertSorted(sorted, x) ==
    IF sorted = <<>> THEN <<x>>
    ELSE LET last == sorted[Len(sorted)]
         IN  IF compareFn(last, x) > 0
             THEN Append(insertSorted(SubSeq(sorted, 1, Len(sorted) - 1), x), last)
             ELSE Append(sorted, x)

RECURSIVE sortFrom(_, _, _)
sortFrom(intervals, i, sorted) ==
    IF i > Len(intervals) THEN sorted
    ELSE sortFrom(intervals, i + 1, insertSorted(sorted, intervals[i]))

sortIntervals(intervals) == sortFrom(intervals, 1, <<>>)

\* groups.forEach of lines 232-247 for one group
computeGroup(group) ==
    LET g == [group EXCEPT !.intervals = sortIntervals(@)]
    IN  [headerRowElementId |-> g.headerRowElementId,
         intervals |-> g.intervals,
         totalTime |-> getGroupTotalTime(g),
         startTime |-> getGroupStartTime(g),
         stopTime |-> getGroupStopTime(g),
         totalGapTimeMs |-> getGroupTotalGapTime(g),
         totalOverlapTimeMs |-> getGroupTotalOverlapTime(g)]

groupTableRows(trs) ==
    LET groups == scanRows(trs, 1, <<>>, 0)
    IN  [k \in 1..Len(groups) |-> computeGroup(groups[k])]

----------------------------------------------------------------------------
(* Rendering                                                               *)

getHoursFromMilliseconds(ms) == ms \div (1000 * 60 * 60)

getMinutesFromMilliseconds(ms) == (ms % (1000 * 60 * 60)) \div (1000 * 60)

\* the rendered span: warning is timeIsOutsideThreshold (red colour and
\* warning icon), hours and minutes are the text shown
renderTimeElement(time, threshold, warningIfExceeded) ==
    LET timeIsOutsideThreshold ==
            IF warningIfExceeded THEN time > threshold ELSE time < threshold
    IN  [warning |-> timeIsOutsideThreshold,
         hours |-> getHoursFromMilliseconds(time),
         minutes |-> getMinutesFromMilliseconds(time)]

\* 7.5 * 60 * 60 * 1000
totalTimeThreshold == (75 * 60 * 60 * 1000) \div 10

\* 30 * 60 * 1000
gapTimeThreshold == 30 * 60 * 1000

overlapTimeThreshold == 0

\* mutant of renderTotalTimeElement: warningIfExceeded passed as true
renderTotalTimeElementExceeded(totalTime) ==
    renderTimeElement(totalTime, totalTimeThreshold, TRUE)

renderTotalTimeElement(totalTime) ==
    renderTimeElement(totalTime, totalTimeThreshold, FALSE)

renderGapTimeElement(gapTime) ==
    renderTimeElement(gapTime, gapTimeThreshold, TRUE)

renderOverlapTimeElement(overlapTime) ==
    renderTimeElement(overlapTime, overlapTimeThreshold, TRUE)

\* one <rect> per interval: x and width as fractions of the scale
renderSvgTimeline(group, scale) ==
    [i \in 1..Len(group.intervals) |->
        [x |-> Percent(group.intervals[i].startTime - group.startTime, scale),
         width |-> Percent(group.intervals[i].stopTime
                             - group.intervals[i].startTime, scale)]]

\* the scale and, per group, the cells of its line in the rendered table
renderGroupInfo(groups) ==
    LET scale == getMaxGroupTotalTime(groups)
    IN  [maxGroupTotalTime |-> scale,
         groupInfo |->
            [k \in 1..Len(groups) |->
                [overlap |-> renderOverlapTimeElement(groups[k].totalOverlapTimeMs),
                 gap |-> renderGapTimeElement(groups[k].totalGapTimeMs),
                 total |-> renderTotalTimeElement(groups[k].totalTime),
                 timeline |-> renderSvgTimeline(groups[k], scale)]]]

----------------------------------------------------------------------------
(* The page and the MutationObserver                                       *)

Tables == 1..NumTables

\* document.getElementById("timeReportTable"); 0 is null
getElementById == inDocument

\* document.querySelector('[data-_seen="true"]'): an element that is in the
\* document and carries the attribute; 0 is null
querySelectorSeen(seen) ==
    IF \E e \in seen : e = inDocument
    THEN CHOOSE e \in seen : e = inDocument
    ELSE 0

\* body of the for loop of lines 507-523 for one mutation record;
\* st.seenAttr are the elements carrying the attribute, st.calls the
\* onTableLoaded calls made so far by this callback
observerBody(st) ==
    LET element == getElementById
        marked ==
            IF element # 0 /\ element \notin st.seenAttr
            THEN [seenAttr |-> st.seenAttr \cup {element},
                  calls |-> st.calls + 1]
            ELSE st
    IN  IF element = 0
        THEN LET oldElement == querySelectorSeen(marked.seenAttr)
             IN  IF oldElement # 0
                 THEN [marked EXCEPT !.seenAttr = @ \ {oldElement}]
                 ELSE marked
        ELSE marked

\* for (const mutation of mutationsList), n records left
RECURSIVE observerLoop(_, _)
observerLoop(n, st) ==
    IF n = 0 THEN st ELSE observerLoop(n - 1, observerBody(st))

\* onTableLoaded: groupTableRows on the table's rows, then renderGroupInfo
onTableLoaded(trs) ==
    LET groups == groupTableRows(trs)
        out == renderGroupInfo(groups)
    IN  [groupedRows |-> groups,
         maxGroupTotalTime |-> out.maxGroupTotalTime,
         groupInfo |-> out.groupInfo]

----------------------------------------------------------------------------
(* Inputs                                                                  *)

\* clock readings "HH:MM" given to the parser on its own; \d{2} also
\* matches hours above 23
ParseClocks ==
    {<<0, 0>>, <<0, 15>>, <<9, 0>>, <<23, 30>>, <<23, 59>>, <<47, 0>>}

ParseFragments ==
    {Match(a[1], a[2], b[1], b[2]) : a \in ParseClocks, b \in ParseClocks}
        \cup {Junk}

ParseTexts == UNION {[1..n -> ParseFragments] : n \in 0..MaxFragments}

\* clock readings in the stopwatch cells of a table
TableClocks == {<<9, 0>>, <<16, 30>>, <<23, 30>>}

TableMatches ==
    {Match(a[1], a[2], b[1], b[2]) : a \in TableClocks, b \in TableClocks}

\* cell texts: no interval, one interval, or two intervals around other text
TableTexts ==
    {<<>>} \cup {<<m>> : m \in TableMatches}
        \cup {<<Match(9, 0, 23, 30), Junk, Match(16, 30, 16, 30)>>}

TableRowKinds ==
    {BoundaryRow(id) : id \in {"d1", "d2"}}
        \cup {ContentRow(FALSE, <<>>)}
        \cup {ContentRow(TRUE, t) : t \in TableTexts}

RowInputs == UNION {[1..n -> TableRowKinds] : n \in 0..MaxRows}

\* table bodies the page shows while the observer is exercised
ObserverRows ==
    {<<>>,
     <<BoundaryRow("d1"), ContentRow(TRUE, <<Match(9, 0, 16, 30)>>)>>,
     <<BoundaryRow("d1"), ContentRow(TRUE, <<Match(9, 0, 9, 0)>>)>>}

----------------------------------------------------------------------------
(* Actions                                                                 *)

\* a call of getIntervalsFromString returns
GetIntervalsFromString ==
    /\ ~parseDone
    /\ parsed' = getIntervalsFromString(intervalsString)
    /\ parseDone' = TRUE
    /\ UNCHANGED <<intervalsString, pageVars>>

\* the page attaches table element e, with body rows trs, as #timeReportTable
InsertTable(e, trs) ==
    /\ inDocument = 0
    /\ records < MaxRecords
    /\ inDocument' = e
    /\ rows' = trs
    /\ records' = records + 1
    /\ loadedCount' = 0
    /\ UNCHANGED <<seenAttr, rendered, groupedRows, maxGroupTotalTime,
                   groupInfo, parseVars>>

\* the page detaches the table; a detached element keeps its attributes
RemoveTable ==
    /\ inDocument # 0
    /\ records < MaxRecords
    /\ inDocument' = 0
    /\ records' = records + 1
    /\ UNCHANGED <<seenAttr, rows, loadedCount, rendered, groupedRows,
                   maxGroupTotalTime, groupInfo, parseVars>>

\* the page adds or removes some other node under document.body
OtherMutation ==
    /\ records < MaxRecords
    /\ records' = records + 1
    /\ UNCHANGED <<inDocument, seenAttr, rows, loadedCount, rendered,
                   groupedRows, maxGroupTotalTime, groupInfo, parseVars>>

\* the observer callback runs on the queued records.  renderGroupInfo
\* appends one node under document.body, which queues one record for the
\* next callback; setting and removing data-_seen queues none (attributes
\* are not observed)
ObserverCallback ==
    /\ records > 0
    /\ LET st == observerLoop(records, [seenAttr |-> seenAttr, calls |-> 0])
       IN  /\ seenAttr' = st.seenAttr
           /\ loadedCount' = loadedCount + st.calls
           /\ records' = st.calls
           /\ IF st.calls > 0
              THEN LET out == onTableLoaded(rows)
                   IN  /\ rendered' = TRUE
                       /\ groupedRows' = out.groupedRows
                       /\ maxGroupTotalTime' = out.maxGroupTotalTime
                       /\ groupInfo' = out.groupInfo
              ELSE UNCHANGED <<rendered, groupedRows, maxGroupTotalTime,
                               groupInfo>>
    /\ UNCHANGED <<inDocument, rows, parseVars>>

----------------------------------------------------------------------------
(* Specifications                                                          *)

NoParse ==
    /\ intervalsString = <<>>
    /\ parsed = <<>>
    /\ parseDone = FALSE

NothingRendered ==
    /\ seenAttr = {}
    /\ loadedCount = 0
    /\ rendered = FALSE
    /\ groupedRows = <<>>
    /\ maxGroupTotalTime = undefined
    /\ groupInfo = <<>>

\* SpecParse: one call of getIntervalsFromString on any text
InitParse ==
    /\ intervalsString \in ParseTexts
    /\ parsed = <<>>
    /\ parseDone = FALSE
    /\ inDocument = 0
    /\ records = 0
    /\ rows = <<>>
    /\ NothingRendered

NextParse == GetIntervalsFromString

SpecParse == InitParse /\ [][NextParse]_vars

\* Spec: a table with any rows has just been attached to the page; its
\* insertion is the one queued mutation record
Init ==
    /\ NoParse
    /\ inDocument = 1
    /\ records = 1
    /\ rows \in RowInputs
    /\ NothingRendered

Next == ObserverCallback

Spec == Init /\ [][Next]_vars

\* SpecObserver: the page attaches and detaches tables and changes other
\* nodes at will; the callback runs whenever records are queued
InitObserver ==
    /\ NoParse
    /\ inDocument = 0
    /\ records = 0
    /\ rows = <<>>
    /\ NothingRendered

NextObserver ==
    \/ \E e \in Tables, trs \in ObserverRows : InsertTable(e, trs)
    \/ RemoveTable
    \/ OtherMutation
    \/ ObserverCallback

SpecObserver == InitObserver /\ [][NextObserver]_vars

----------------------------------------------------------------------------
(* Properties                                                              *)

Max0(x) == IF x > 0 THEN x ELSE 0

RECURSIVE SeqSum(_)
SeqSum(s) == IF s = <<>> THEN 0 ELSE Head(s) + SeqSum(Tail(s))

\* number of elements of s equal to v
Count(v, s) == Cardinality({i \in 1..Len(s) : s[i] = v})

ValidClock(m) ==
    /\ m.startHour \in 0..23 /\ m.startMinute \in 0..59
    /\ m.stopHour \in 0..23 /\ m.stopMinute \in 0..59

\* minutes since midnight of the two clock readings of a match
StartClock(m) == m.startHour * 60 + m.startMinute
StopClock(m) == m.stopHour * 60 + m.stopMinute

\* C1: every match with valid clock times yields an interval with
\* stop >= start that starts today at the start clock time; a stop clock
\* time strictly earlier than the start clock time is moved forward by
\* exactly one day (so the interval lasts the clock difference modulo 24 h),
\* and equal clock times give an unmoved stop and a duration of zero.
C1_StopNotBeforeStart ==
    parseDone =>
        LET matches == regexMatches(intervalsString)
        IN  /\ Len(parsed) = Len(matches)
            /\ \A i \in 1..Len(matches) :
                 ValidClock(matches[i]) =>
                    LET s == StartClock(matches[i])
                        e == StopClock(matches[i])
                    IN  /\ parsed[i].stopTime >= parsed[i].startTime
                        /\ parsed[i].startTime = s * 60000
                        /\ e < s => parsed[i].stopTime = (e + 24 * 60) * 60000
                        /\ e = s => /\ parsed[i].stopTime = e * 60000
                                    /\ parsed[i].stopTime - parsed[i].startTime = 0

\* a text holding "(23:30 - 00:15)", parsed to 45 minutes, and an interval
\* with equal clock times, parsed to zero length
C1_Witness ==
    /\ parseDone
    /\ \E i, j \in 1..Len(parsed) :
          /\ intervalsString[i] = Match(23, 30, 0, 15)
          /\ parsed[i].stopTime - parsed[i].startTime = 45 * 60000
          /\ parsed[i].stopTime > 24 * 60 * 60000
          /\ StartClock(intervalsString[j]) = StopClock(intervalsString[j])
          /\ ValidClock(intervalsString[j])
          /\ parsed[j].stopTime = parsed[j].startTime

\* number of boundary rows among the first i rows: the group a row is under
GroupIndex(trs, i) == Cardinality({j \in 1..i : trs[j].id # ""})

\* the row sequences got from trs by permuting content rows that lie
\* under the same boundary row, every boundary row staying in place
SameGroupPermutations(trs) ==
    LET n == Len(trs)
        perms == {f \in [1..n -> 1..n] :
                    /\ \A i, j \in 1..n : f[i] = f[j] => i = j
                    /\ \A i \in 1..n :
                         IF trs[i].id # "" THEN f[i] = i
                         ELSE /\ trs[f[i]].id = ""
                              /\ GroupIndex(trs, f[i]) = GroupIndex(trs, i)}
    IN  {[i \in 1..n |-> trs[f[i]]] : f \in perms}

\* C2: permuting the content rows under the same boundary row changes
\* neither the sorted interval sequence of a group nor its totalTime,
\* startTime, stopTime, totalGapTimeMs and totalOverlapTimeMs.
C2_SortInvariance ==
    rendered =>
        \A permuted \in SameGroupPermutations(rows) :
            groupTableRows(permuted) = groupedRows

IsSortedByStart(intervals) ==
    \A i \in 1..(Len(intervals) - 1) :
        intervals[i].startTime <= intervals[i + 1].startTime

\* C3: per group the intervals are in start order, totalTime is the sum of
\* the durations, totalGapTimeMs the sum over adjacent pairs of
\* max(0, curr.start - prev.stop) and totalOverlapTimeMs the sum of
\* max(0, prev.stop - curr.start); both are 0 for fewer than two intervals.
C3_Metrics ==
    rendered =>
        \A k \in 1..Len(groupedRows) :
            LET g == groupedRows[k]
                iv == g.intervals
                n == Len(iv)
            IN  /\ IsSortedByStart(iv)
                /\ g.totalTime =
                     SeqSum([i \in 1..n |-> iv[i].stopTime - iv[i].startTime])
                /\ g.totalGapTimeMs =
                     SeqSum([i \in 1..(n - 1) |->
                               Max0(iv[i + 1].startTime - iv[i].stopTime)])
                /\ g.totalOverlapTimeMs =
                     SeqSum([i \in 1..(n - 1) |->
                               Max0(iv[i].stopTime - iv[i + 1].startTime)])
                /\ n <= 1 => g.totalGapTimeMs = 0 /\ g.totalOverlapTimeMs = 0

\* a group of at least three intervals with a gap and an overlap, next to
\* a state reached through rendering
C3_Witness ==
    /\ rendered
    /\ \E k \in 1..Len(groupedRows) :
          /\ Len(groupedRows[k].intervals) >= 3
          /\ groupedRows[k].totalGapTimeMs > 0
          /\ groupedRows[k].totalOverlapTimeMs > 0
          /\ groupedRows[k].totalTime > 0

\* C4: startTime is the earliest start and stopTime the latest stop of the
\* group's intervals, both null for a group without intervals.
C4_StartStop ==
    rendered =>
        \A k \in 1..Len(groupedRows) :
            LET g == groupedRows[k]
                iv == g.intervals
            IN  IF iv = <<>>
                THEN g.startTime = null /\ g.stopTime = null
                ELSE /\ \E i \in 1..Len(iv) : g.startTime = iv[i].startTime
                     /\ \A i \in 1..Len(iv) : g.startTime <= iv[i].startTime
                     /\ \E i \in 1..Len(iv) : g.stopTime = iv[i].stopTime
                     /\ \A i \in 1..Len(iv) : g.stopTime >= iv[i].stopTime

AllGroupsEmpty == \A k \in 1..Len(groupedRows) : groupedRows[k].intervals = <<>>

SomeInterval == \E k \in 1..Len(groupedRows) : groupedRows[k].intervals # <<>>

C6_ScalePositive ==
    rendered /\ SomeInterval =>
        maxGroupTotalTime.kind = "number" /\ maxGroupTotalTime.num > 0

BoundaryPositions(trs) ==
    SelectSeq([i \in 1..Len(trs) |-> i], LAMBDA i : trs[i].id # "")

\* the intervals of the content rows strictly between positions from and to
RECURSIVE IntervalsBetween(_, _, _)
IntervalsBetween(trs, from, to) ==
    IF from + 1 >= to THEN <<>>
    ELSE IntervalsBetween(trs, from, to - 1)
            \o getIntervalsFromString(trs[to - 1].text)

\* C8: one group per boundary row, in input order, and the intervals of a
\* group are exactly (counted with multiplicity) the intervals of the
\* content rows between its boundary row and the next one; rows before the
\* first boundary row give no interval to any group.
C8_GroupAttachment ==
    rendered =>
        LET b == BoundaryPositions(rows)
        IN  /\ Len(groupedRows) = Len(b)
            /\ \A k \in 1..Len(b) :
                 LET next == IF k < Len(b) THEN b[k + 1] ELSE Len(rows) + 1
                     own == IntervalsBetween(rows, b[k], next)
                     got == groupedRows[k].intervals
                 IN  /\ groupedRows[k].headerRowElementId = rows[b[k]].id
                     /\ Len(got) = Len(own)
                     /\ \A i \in 1..Len(own) : Count(own[i], got) = Count(own[i], own)

\* a content row with an interval before the first boundary row, then two
\* boundary rows, the second of which gets an interval
C8_Witness ==
    /\ rendered
    /\ Len(groupedRows) = 2
    /\ rows[1].id = "" /\ rows[1].strong /\ rows[1].text # <<>>
    /\ groupedRows[1].intervals = <<>>
    /\ groupedRows[2].intervals # <<>>
    /\ groupedRows[1].headerRowElementId # groupedRows[2].headerRowElementId

\* C9 as claimed: total time and overlap are flagged exactly when above
\* their thresholds (7.5 h, 0), the gap exactly when below its threshold
\* (30 min).
C9_FlagsAsClaimed ==
    rendered =>
        \A k \in 1..Len(groupInfo) :
            /\ groupInfo[k].total.warning <=> groupedRows[k].totalTime > 27000000
            /\ groupInfo[k].overlap.warning <=> groupedRows[k].totalOverlapTimeMs > 0
            /\ groupInfo[k].gap.warning <=> groupedRows[k].totalGapTimeMs < 1800000

\* C9 as amended: the total time is flagged exactly when below 7.5 h, the
\* gap exactly when above 30 min, the overlap exactly when above 0.
C9_Flags ==
    rendered =>
        /\ Len(groupInfo) = Len(groupedRows)
        /\ \A k \in 1..Len(groupInfo) :
            /\ groupInfo[k].total.warning <=> groupedRows[k].totalTime < 27000000
            /\ groupInfo[k].overlap.warning <=> groupedRows[k].totalOverlapTimeMs > 0
            /\ groupInfo[k].gap.warning <=> groupedRows[k].totalGapTimeMs > 1800000

\* one group with a total of exactly 7.5 h (not flagged), a gap above
\* 30 min (flagged) and no overlap (not flagged), and one group flagged for
\* a total below 7.5 h
C9_Witness ==
    /\ rendered
    /\ \E k, l \in 1..Len(groupInfo) :
          /\ groupedRows[k].totalTime = 27000000
          /\ groupInfo[k].total.warning = FALSE
          /\ groupedRows[k].totalGapTimeMs > 1800000
          /\ groupInfo[k].gap.warning
          /\ groupInfo[k].overlap.warning = FALSE
          /\ groupedRows[l].totalTime < 27000000
          /\ groupInfo[l].total.warning

\* C10: when a table is in the document and the observer has handled every
\* queued mutation record, onTableLoaded has been called exactly once since
\* the table appeared.
C10_OncePerAppearance ==
    inDocument # 0 /\ records = 0 => loadedCount = 1

\* what the adjacent pair (prev, curr) adds to totalGapTimeMs and to
\* totalOverlapTimeMs: one pass of each loop from a total of 0
GapContribution(prev, curr) == gapStep(prev, curr, 0)
OverlapContribution(prev, curr) == overlapStep(prev, curr, 0)

\* C11: for every adjacent pair of a computed group the contributions to
\* totalGapTimeMs and to totalOverlapTimeMs are never both positive, both
\* are zero when curr.start equals prev.stop, and the contributions of the
\* pairs add up to the group's two totals.
C11_GapOverlapExclusive ==
    rendered =>
        \A k \in 1..Len(groupedRows) :
            LET iv == groupedRows[k].intervals
                n == Len(iv)
            IN  /\ \A i \in 1..(n - 1) :
                     LET gap == GapContribution(iv[i], iv[i + 1])
                         overlap == OverlapContribution(iv[i], iv[i + 1])
                     IN  /\ gap >= 0 /\ overlap >= 0
                         /\ ~(gap > 0 /\ overlap > 0)
                         /\ iv[i + 1].startTime = iv[i].stopTime =>
                               gap = 0 /\ overlap = 0
                /\ groupedRows[k].totalGapTimeMs =
                     SeqSum([i \in 1..(n - 1) |->
                               GapContribution(iv[i], iv[i + 1])])
                /\ groupedRows[k].totalOverlapTimeMs =
                     SeqSum([i \in 1..(n - 1) |->
                               OverlapContribution(iv[i], iv[i + 1])])
                /\ n = 2 => ~(groupedRows[k].totalGapTimeMs > 0
                                /\ groupedRows[k].totalOverlapTimeMs > 0)

\* a group with a pair that overlaps, a pair that meets exactly
\* (curr.start = prev.stop) and a pair with a gap
C11_Witness ==
    /\ rendered
    /\ \E k \in 1..Len(groupedRows) :
          LET iv == groupedRows[k].intervals
          IN  /\ \E i \in 1..(Len(iv) - 1) :
                    /\ iv[i].stopTime > iv[i + 1].startTime
                    /\ OverlapContribution(iv[i], iv[i + 1]) > 0
              /\ \E i \in 1..(Len(iv) - 1) :
                    iv[i + 1].startTime = iv[i].stopTime
              /\ \E i \in 1..(Len(iv) - 1) :
                    /\ iv[i + 1].startTime > iv[i].stopTime
                    /\ GapContribution(iv[i], iv[i + 1]) > 0

====
